---- MODULE Spec2Model ----
(***************************************************************************)
(* A model of Clazzy (src/src/Clazzy.js): the `create` class compiler, the  *)
(* constructor it returns and the wrapper that gives methods `this.super`.  *)
(*                                                                          *)
(* Classes are numbered in creation order, 1, 2, ...; class 0 is the host's *)
(* `Object`, which `create` uses as the base of a class without `extend`.   *)
(* An object is a table of own properties (name -> property descriptor)     *)
(* and a parent on its prototype chain.  The host is one that has           *)
(* Object.create and Object.defineProperties, so the helpers are the ones   *)
(* of lines 53-56 and 102-117, not the fall-backs for older hosts.          *)
(***************************************************************************)
EXTENDS Integers, Sequences, FiniteSets, TLC

\* Bounds of the model: classes created and mixins named by one definition
\* when members of every kind are declared; the same when only `static`
\* blocks vary; static members added to a class from outside.
MaxClasses == 3
MaxIncludes == 2
MaxStaticClasses == 2
MaxStaticIncludes == 1
MaxMutations == 1
\* Bounds of a run: instances made, frames on the call stack, the largest
\* argument and the largest result a call passes.
MaxInstances == 1
MaxDepth == 5
MaxArg == 1
MaxResult == 1

\* Keywords (Clazzy.js 22-28).
SUPER == "super"
INITIALIZE == "initialize"
EXTEND == "extend"
STATIC == "static"
INCLUDE == "include"
CONSTRUCTOR == "constructor"

\* The property names an object of the model can hold.
Names == {"m", "qux", "constructor", "toString"}

(***************************************************************************)
(* Values.  t is the kind of value:                                         *)
(*   "undef"    undefined                                                   *)
(*   "plain"    a value that is not a function, written in class `owner`    *)
(*   "fn"       a bare function written in the definition of class `owner`  *)
(*              under the key `sig` (owner 0: a host function)              *)
(*   "wrapped"  what wrapMethodToHaveSuper returns for that function: it    *)
(*              remembers the signature `sig` and the class `base`          *)
(*   "class"    the constructor of class `owner`                            *)
(*   "nosuper"  the noSuper sentinel                                        *)
(***************************************************************************)
Value(t, owner, sig, base) == [t |-> t, owner |-> owner, sig |-> sig, base |-> base]
Undefined == Value("undef", 0, "", 0)
Plain(owner) == Value("plain", owner, "", 0)
Fn(owner, name) == Value("fn", owner, name, 0)
ClassVal(c) == Value("class", c, "", 0)
noSuper == Value("nosuper", 0, "", 0)

\* typeof v === 'function'
IsFunction(v) == v.t \in {"fn", "wrapped", "class", "nosuper"}

\* ToBoolean(v), as `||` applies it: of the values of the model only
\* undefined is falsy (a "plain" value stands for a truthy one).
Truthy(v) == v.t # "undef"

(***************************************************************************)
(* Property descriptors.  For an accessor, val is what its getter returns   *)
(* when invoked (val.owner tells whose accessor it is) and hasSet whether   *)
(* it has a setter.                                                         *)
(***************************************************************************)
Absent == [kind |-> "absent", val |-> Undefined, hasSet |-> FALSE, enum |-> FALSE]
DataDesc(v, e) == [kind |-> "data", val |-> v, hasSet |-> FALSE, enum |-> e]
AccessorDesc(v, s) == [kind |-> "accessor", val |-> v, hasSet |-> s, enum |-> TRUE]

NoProps == [n \in Names |-> Absent]

\* The host's Object.prototype: `constructor` and `toString`, neither
\* enumerable.
ObjectPrototype ==
    [n \in Names |->
        IF n = CONSTRUCTOR THEN DataDesc(ClassVal(0), FALSE)
        ELSE IF n = "toString" THEN DataDesc(Fn(0, "toString"), FALSE)
        ELSE Absent]

\* The own properties of C.prototype and the class its prototype chain
\* continues with.
ProtoOf(cs, c) == IF c = 0 THEN ObjectPrototype ELSE cs[c].proto

\* The nearest property named n on the prototype chain that starts at
\* C.prototype (Absent when no object of the chain has one).
RECURSIVE ChainLookup(_, _, _)
ChainLookup(cs, c, n) ==
    IF ProtoOf(cs, c)[n].kind # "absent" THEN ProtoOf(cs, c)[n]
    ELSE IF c = 0 THEN Absent
    ELSE ChainLookup(cs, cs[c].base, n)

\* The own-property tables of the chain that starts at C.prototype.
RECURSIVE ChainTables(_, _)
ChainTables(cs, c) ==
    IF c = 0 THEN <<ObjectPrototype>>
    ELSE <<cs[c].proto>> \o ChainTables(cs, cs[c].base)

\* object[n]: the value a read of property n yields, the getter's value
\* for an accessor.
GetValue(d) == IF d.kind = "absent" THEN Undefined ELSE d.val

(***************************************************************************)
(* Helpers (Clazzy.js 33-130).  An object handed to them is a record        *)
(* [own |-> its own properties, up |-> the own-property tables of the rest  *)
(* of its prototype chain, nearest first].                                  *)
(***************************************************************************)

\* Object.create(clazz.prototype): nothing of its own, the class's
\* prototype chain above it.
createAnUnconstructedInstanceOfClass(cs, clazz) ==
    [own |-> NoProps, up |-> ChainTables(cs, clazz)]

RECURSIVE FirstInTables(_, _)
FirstInTables(tables, n) ==
    IF tables = <<>> THEN Absent
    ELSE IF Head(tables)[n].kind # "absent" THEN Head(tables)[n]
    ELSE FirstInTables(Tail(tables), n)

\* The own descriptor, or with `deep` the nearest one up the chain.  (The
\* host raises a TypeError when the walk runs off the end of the chain;
\* copyProperties only asks for names that for...in found, so it never does.)
getPropertyDescriptor(object, property, deep) ==
    IF object.own[property].kind # "absent" THEN object.own[property]
    ELSE IF deep THEN FirstInTables(object.up, property)
    ELSE Absent

\* The names `for (property in source)` visits: those whose nearest
\* property on the chain is enumerable.
ForIn(source) ==
    {n \in Names : getPropertyDescriptor(source, n, TRUE).kind # "absent"
                   /\ getPropertyDescriptor(source, n, TRUE).enum}

\* Object.defineProperty(target, property, descriptor) when a descriptor
\* was found: the target's own property becomes that descriptor.
copyProperty(source, target, property, deep) ==
    LET descriptor == getPropertyDescriptor(source, property, deep)
    IN  IF descriptor.kind # "absent"
        THEN [target EXCEPT ![property] = descriptor]
        ELSE target

\* Every visited name is copied when deep, only own ones otherwise.  The
\* copies write different names, so their order makes no difference.
copyProperties(source, target, deep) ==
    [n \in Names |->
        IF n \in ForIn(source) /\ (deep \/ source.own[n].kind # "absent")
        THEN copyProperty(source, target, n, deep)[n]
        ELSE target[n]]

(***************************************************************************)
(* `object[n] = v` in strict code ('use strict', Clazzy.js 1), for an       *)
(* object with own properties `own` whose chain continues at class `up`.    *)
(* An own data property takes the value; an accessor anywhere on the chain  *)
(* gets its setter called instead, and without a setter the host raises a   *)
(* TypeError; otherwise a new enumerable own data property is made.         *)
(***************************************************************************)
PutValue(cs, own, up, n, v) ==
    LET found == IF own[n].kind # "absent" THEN own[n] ELSE ChainLookup(cs, up, n)
    IN  IF found.kind = "accessor"
        THEN [own |-> own, threw |-> ~found.hasSet, setter |-> found.hasSet]
        ELSE IF own[n].kind = "data"
        THEN [own |-> [own EXCEPT ![n].val = v], threw |-> FALSE, setter |-> FALSE]
        ELSE [own |-> [own EXCEPT ![n] = DataDesc(v, TRUE)],
              threw |-> FALSE, setter |-> FALSE]

\* A wrapper that forgets the base it was given and resolves against Object.
wrapMethodAgainstObject(method, signature, base) ==
    Value("wrapped", method.owner, signature, 0)

\* wrapMethodToHaveSuper(method, signature, base): the wrapper keeps the
\* function, the signature and the base it was made with.
wrapMethodToHaveSuper(method, signature, base) ==
    Value("wrapped", method.owner, signature, base)

(***************************************************************************)
(* create (Clazzy.js 172-288).  A definition is a record                    *)
(*   [extend  |-> the class named by `extend`, 0 when there is none,        *)
(*    include |-> the classes named by `include`, in order,                 *)
(*    members |-> its other enumerable properties in for...in order, each   *)
(*                [key, own (hasOwnProperty), desc (its descriptor),        *)
(*                 block (the object it holds, for `static`)]].             *)
(* The state of one call is the prototype and the static members built so   *)
(* far, the initializer, the outcome and how many getters and setters of    *)
(* the caller's objects the call has invoked.                               *)
(***************************************************************************)
NoObject == [own |-> NoProps, up |-> <<ObjectPrototype>>]

\* A class that starts with the static members of its base.
InheritedStatics(cs, base) == IF base = 0 THEN NoProps ELSE cs[base].statics

\* 1) `function Class ()`: a new function has no enumerable property of
\* its own.
NewClassStatics(cs, base) == NoProps

\* 2) Inherit (203-216): without `extend` the base is Object and the
\* prototype is the function's default one, holding a non-enumerable
\* `constructor`; with it the prototype is an unconstructed instance of the
\* base and the initializer defaults to base.prototype.constructor.
Inherit(cs, definition) ==
    LET self == Len(cs) + 1
        base == definition.extend
    IN  [proto |-> IF base = 0
                   THEN [NoProps EXCEPT ![CONSTRUCTOR] = DataDesc(ClassVal(self), FALSE)]
                   ELSE createAnUnconstructedInstanceOfClass(cs, base).own,
         statics |-> NewClassStatics(cs, base),
         initialize |-> IF base = 0 THEN Undefined
                        ELSE GetValue(ChainLookup(cs, base, CONSTRUCTOR)),
         outcome |-> "ok", getters |-> 0, setters |-> 0]

\* 3) Mixin (220-232): each include in turn, deep-copied onto the prototype.
RECURSIVE Mixin(_, _, _)
Mixin(cs, includes, proto) ==
    IF includes = <<>> THEN proto
    ELSE Mixin(cs, Tail(includes),
               copyProperties(createAnUnconstructedInstanceOfClass(cs, Head(includes)),
                              proto, TRUE))

\* The default case (267-280): a function is wrapped and assigned, anything
\* else has its descriptor copied.
DefineMember(cs, base, st, entry, member) ==
    IF IsFunction(member)
    THEN LET put == PutValue(cs, st.proto, base, entry.key,
                             wrapMethodToHaveSuper(member, entry.key, base))
         IN  [st EXCEPT !.proto = put.own,
                        !.outcome = IF put.threw THEN "TypeError" ELSE "ok",
                        !.setters = @ + (IF put.setter THEN 1 ELSE 0)]
    ELSE [st EXCEPT !.proto =
            copyProperty([own |-> [NoProps EXCEPT ![entry.key] = entry.desc],
                          up |-> <<ObjectPrototype>>],
                         st.proto, entry.key, FALSE)]

\* One turn of the loop of 4) Define (236-283), for an own property.
\* `var member = definition[property]` reads the property, which invokes
\* the getter of an accessor.
DefineOne(cs, base, st0, entry) ==
    LET member == GetValue(entry.desc)
        st == [st0 EXCEPT !.getters = @ + (IF entry.desc.kind = "accessor" THEN 1 ELSE 0)]
    IN  CASE entry.key = INITIALIZE ->
                [st EXCEPT !.initialize = wrapMethodToHaveSuper(member, CONSTRUCTOR, base)]
          [] entry.key \in {EXTEND, INCLUDE} -> st
          [] entry.key = STATIC ->
                [st EXCEPT !.statics = copyProperties(entry.block, st.statics, FALSE)]
          [] entry.key = SUPER ->
                [st EXCEPT !.outcome = "ReservedNameError"]
          [] OTHER -> DefineMember(cs, base, st, entry, member)

\* 4) Define: the members in order; an error ends the call.
RECURSIVE Define(_, _, _, _)
Define(cs, base, st, members) ==
    IF members = <<>> \/ st.outcome # "ok" THEN st
    ELSE Define(cs, base,
                IF Head(members).own THEN DefineOne(cs, base, st, Head(members)) ELSE st,
                Tail(members))

\* The whole call: the class it returns when the outcome is "ok".  `def`
\* remembers the definition the class was made from.
create(cs, definition) ==
    LET self == Len(cs) + 1
        base == definition.extend
        st1 == Inherit(cs, definition)
        st2 == [st1 EXCEPT !.proto = Mixin(cs, definition.include, st1.proto)]
        st3 == Define(cs, base, st2, definition.members)
        put == PutValue(cs, st3.proto, base, CONSTRUCTOR, ClassVal(self))
        outcome == IF st3.outcome # "ok" THEN st3.outcome
                   ELSE IF put.threw THEN "TypeError" ELSE "ok"
    IN  [outcome |-> outcome,
         getters |-> st3.getters,
         setters |-> st3.setters + (IF st3.outcome = "ok" /\ put.setter THEN 1 ELSE 0),
         class |-> [base |-> base,
                    includes |-> definition.include,
                    proto |-> put.own,
                    statics |-> st3.statics,
                    initialize |-> st3.initialize,
                    def |-> definition]]

(***************************************************************************)
(* The state: the classes created so far, the outcome of the latest call    *)
(* of create with the definition it was given and the number of getters it  *)
(* invoked, the members put on a class from outside after its creation,     *)
(* the instances, the call stack, the exception in flight, the value the    *)
(* latest call returned, the latest use of `this.super` and what the        *)
(* latest `new` has run so far.                                             *)
(***************************************************************************)
VARIABLES classes, outcome, lastDef, getters, added,
          objs, stack, exc, ret, superCall, ctorLog

cvars == <<classes, outcome, lastDef, getters, added>>
rvars == <<objs, stack, exc, ret, superCall, ctorLog>>
vars == <<classes, outcome, lastDef, getters, added,
          objs, stack, exc, ret, superCall, ctorLog>>

\* Sequences over S of length at most n.
RECURSIVE SeqsUpTo(_, _)
SeqsUpTo(S, n) ==
    IF n = 0 THEN {<<>>}
    ELSE SeqsUpTo(S, n - 1) \cup
         {Append(q, x) : q \in {r \in SeqsUpTo(S, n - 1) : Len(r) = n - 1}, x \in S}

\* The members a definition can declare.
Entry(key, own, desc, block) == [key |-> key, own |-> own, desc |-> desc, block |-> block]
Method(self, key) == Entry(key, TRUE, DataDesc(Fn(self, key), TRUE), NoObject)
Data(self, key) == Entry(key, TRUE, DataDesc(Plain(self), TRUE), NoObject)
Accessor(self, key, v, hasSet) == Entry(key, TRUE, AccessorDesc(v, hasSet), NoObject)
Reserved(self, own) == Entry(SUPER, own, DataDesc(Plain(self), TRUE), NoObject)
Static(own, inherited) ==
    Entry(STATIC, TRUE, DataDesc(Undefined, TRUE), [own |-> own, up |-> <<inherited, ObjectPrototype>>])

\* Member lists with members of every kind, for the class that will be
\* numbered self.
MemberLists(self) ==
    { <<>>,
      <<Method(self, "m")>>,
      <<Data(self, "m")>>,
      <<Accessor(self, "m", Plain(self), TRUE)>>,
      <<Accessor(self, "m", Plain(self), FALSE)>>,
      <<Accessor(self, "m", Fn(self, "m"), FALSE)>>,
      <<Method(self, INITIALIZE)>>,
      <<Method(self, "m"), Reserved(self, TRUE)>>,
      <<Reserved(self, TRUE), Method(self, "m")>>,
      <<Reserved(self, FALSE), Method(self, "m")>> }

\* Member lists that differ in their `static` block: none, an own
\* enumerable method or accessor, a method that is inherited by the block,
\* one that is not enumerable.
StaticMemberLists(self) ==
    { <<>>,
      <<Method(self, "m")>>,
      <<Static([NoProps EXCEPT !["qux"] = DataDesc(Fn(self, "qux"), TRUE)], NoProps)>>,
      <<Static([NoProps EXCEPT !["qux"] = AccessorDesc(Plain(self), FALSE)], NoProps)>>,
      <<Static(NoProps, [NoProps EXCEPT !["qux"] = DataDesc(Fn(self, "qux"), TRUE)])>>,
      <<Static([NoProps EXCEPT !["qux"] = DataDesc(Fn(self, "qux"), FALSE)], NoProps)>> }

Definitions(cs, lists, maxIncludes) ==
    [extend : 0..Len(cs),
     include : SeqsUpTo(1..Len(cs), maxIncludes),
     members : lists]

Init ==
    /\ classes = <<>>
    /\ outcome = "none"
    /\ lastDef = [extend |-> 0, include |-> <<>>, members |-> <<>>]
    /\ getters = 0
    /\ added = {}
    /\ objs = <<>>
    /\ stack = <<>>
    /\ exc = "none"
    /\ ret = 0
    /\ superCall = [active |-> FALSE, from |-> Undefined, self |-> 0, args |-> 0,
                    target |-> Undefined]
    /\ ctorLog = [cls |-> 0, args |-> 0, calls |-> <<>>, done |-> FALSE]

\* Clazzy.create(definition), called by top-level code.  An error that
\* create raises is not caught: the program ends with it (a failed call
\* leaves nothing behind that a later call could read).
DoCreate(definition) ==
    LET r == create(classes, definition)
    IN  /\ stack = <<>>
        /\ outcome \in {"none", "ok"}
        /\ classes' = IF r.outcome = "ok" THEN Append(classes, r.class) ELSE classes
        /\ outcome' = r.outcome
        /\ lastDef' = definition
        /\ getters' = r.getters
        /\ UNCHANGED <<added, objs, stack, exc, ret, superCall, ctorLog>>

Create ==
    /\ Len(classes) < MaxClasses
    /\ \E d \in Definitions(classes, MemberLists(Len(classes) + 1), MaxIncludes) :
            DoCreate(d)

CreateWithStatic ==
    /\ Len(classes) < MaxStaticClasses
    /\ \E d \in Definitions(classes, StaticMemberLists(Len(classes) + 1), MaxStaticIncludes) :
            DoCreate(d)

\* Top-level code sets a static member on a class that exists: C.qux = f.
AddStatic ==
    /\ stack = <<>>
    /\ Cardinality(added) < MaxMutations
    /\ \E c \in 1..Len(classes) :
          /\ classes' = [classes EXCEPT ![c].statics =
                            PutValue(classes, @, 0, "qux", Fn(0, "late")).own]
          /\ added' = added \cup {<<STATIC, c, "qux">>}
    /\ UNCHANGED <<outcome, lastDef, getters, objs, stack, exc, ret, superCall, ctorLog>>

NextCreate == Create
SpecCreate == Init /\ [][NextCreate]_vars

NextStatic == CreateWithStatic \/ AddStatic
SpecStatic == Init /\ [][NextStatic]_vars

(***************************************************************************)
(* Running the classes.  A frame of the call stack is either the            *)
(* constructor `Class` of class cls (kind "ctor"; idx counts the calls it   *)
(* has made) or the body of a wrapped method w (kind "method"; tmp is the   *)
(* wrapper's saved `this.super`).  self is `this`, args what the function   *)
(* received and via how it came to be called.  What the body of a method    *)
(* does is up to its author: at each step it may call `this.super`, call a  *)
(* method of an instance, return or throw, and it may catch what a call     *)
(* of its own raised.                                                       *)
(***************************************************************************)
Args == 0..MaxArg
MethodNames == {"m", "toString"}
Results == 0..MaxResult

Frame(kind, self, cls, idx, w, tmp, args, via) ==
    [kind |-> kind, self |-> self, cls |-> cls, idx |-> idx, w |-> w, tmp |-> tmp,
     args |-> args, via |-> via]

Top == stack[Len(stack)]
Pop == SubSeq(stack, 1, Len(stack) - 1)

NoSuperCall ==
    [active |-> FALSE, from |-> Undefined, self |-> 0, args |-> 0, target |-> Undefined]

\* A lookup that starts at the prototype of the method's own class.
SuperTargetOwnClass(cs, w) ==
    LET found == GetValue(ChainLookup(cs, w.owner, w.sig))
    IN  IF Truthy(found) THEN found ELSE noSuper

\* A lookup that sees only what the base's chain held when the class was
\* created, not what was put on a prototype later.
SuperTargetAtCreation(cs, w) ==
    LET found == GetValue(ChainLookup(cs, w.base, w.sig))
    IN  IF Truthy(found) /\ ~(found.t = "fn" /\ found.sig = "late") THEN found ELSE noSuper

\* base.prototype[signature] || noSuper (147), looked up when the wrapper runs.
SuperTarget(cs, w) ==
    LET found == GetValue(ChainLookup(cs, w.base, w.sig))
    IN  IF Truthy(found) THEN found ELSE noSuper

\* A restore that is skipped when the body throws (no finally).
RestoreOnReturn(obj, tmp, threw) == IF threw THEN obj ELSE [obj EXCEPT !.super = tmp]

\* The finally block (157-160): this[SUPER] = tmp, however the body ended.
Restore(obj, tmp, threw) == [obj EXCEPT !.super = tmp]

\* object.n for an instance: its own properties are `super` alone, the
\* rest comes from its class's prototype chain.
Member(cs, obj, n) == GetValue(ChainLookup(cs, obj.cls, n))

(***************************************************************************)
(* Calling the value v with `this` = self and the arguments a, on top of    *)
(* the stack stk.  A wrapper (143-163) saves this.super, rebinds it and     *)
(* runs the method with the arguments it was given; a class runs `Class`;   *)
(* a bare function of the host or of the caller returns at once; noSuper    *)
(* throws, and so does the call of something that is no function.           *)
(***************************************************************************)
Invoke(v, self, a, via, stk) ==
    CASE v.t = "wrapped" ->
            [objs |-> [objs EXCEPT ![self].super = SuperTarget(classes, v)],
             stack |-> Append(stk, Frame("method", self, 0, 0, v, objs[self].super, a, via)),
             exc |-> "none"]
      [] v.t = "class" /\ v.owner # 0 ->
            [objs |-> objs,
             stack |-> Append(stk, Frame("ctor", self, v.owner, 0, Undefined, Undefined, a, via)),
             exc |-> "none"]
      [] v.t = "nosuper" ->
            [objs |-> objs, stack |-> stk, exc |-> "NoSuperclassMethodError"]
      [] v.t \in {"undef", "plain"} ->
            [objs |-> objs, stack |-> stk, exc |-> "TypeError"]
      [] OTHER ->
            [objs |-> objs, stack |-> stk, exc |-> "none"]

Pushes(v) == v.t = "wrapped" \/ (v.t = "class" /\ v.owner # 0)

CanInvoke(v) == Pushes(v) => Len(stack) < MaxDepth

\* new C(a): a fresh instance of C, then Class (183-199) runs on it.
New ==
    /\ stack = <<>>
    /\ Len(objs) < MaxInstances
    /\ \E c \in 1..Len(classes), a \in Args :
          /\ objs' = Append(objs, [cls |-> c, super |-> Undefined])
          /\ stack' = <<Frame("ctor", Len(objs) + 1, c, 0, Undefined, Undefined, a, "new")>>
          /\ ctorLog' = [cls |-> c, args |-> a, calls |-> <<>>, done |-> FALSE]
    /\ exc' = "none"
    /\ ret' = 0
    /\ superCall' = NoSuperCall
    /\ UNCHANGED cvars

\* An include that is handed the constructor's arguments.
IncludeCallWithArguments(cs, frame) ==
    [callee |-> ClassVal(cs[frame.cls].includes[frame.idx + 1]), args |-> frame.args]

\* includes[i].call(this) (189): the include at the frame's position, given
\* no argument.
IncludeCall(cs, frame) ==
    [callee |-> ClassVal(cs[frame.cls].includes[frame.idx + 1]), args |-> 0]

\* initialize.apply(this, slice.call(arguments)) (195-197).
InitializeCall(cs, frame) ==
    [callee |-> cs[frame.cls].initialize, args |-> frame.args]

\* What a call made by the constructor that `new` started adds to the log.
Logged(stk, callee, a) ==
    IF Len(stk) = 1 /\ stk[1].via = "new"
    THEN [ctorLog EXCEPT !.calls = Append(@, [callee |-> callee, args |-> a])]
    ELSE ctorLog

\* Class (185-191): the next include is called on `this`, with no argument.
CtorInclude ==
    /\ stack # <<>> /\ exc = "none"
    /\ Top.kind = "ctor"
    /\ Top.idx < Len(classes[Top.cls].includes)
    /\ LET call == IncludeCall(classes, Top)
           r == Invoke(call.callee, Top.self, call.args, "include",
                       [stack EXCEPT ![Len(stack)].idx = @ + 1])
       IN  /\ CanInvoke(call.callee)
           /\ objs' = r.objs /\ stack' = r.stack /\ exc' = r.exc
           /\ ctorLog' = Logged(stack, call.callee, call.args)
    /\ ret' = 0
    /\ superCall' = NoSuperCall
    /\ UNCHANGED cvars

\* Class (193-198): after the includes the initializer, when there is one,
\* is applied to `this` with the arguments of the constructor.
CtorInitialize ==
    /\ stack # <<>> /\ exc = "none"
    /\ Top.kind = "ctor"
    /\ Top.idx = Len(classes[Top.cls].includes)
    /\ classes[Top.cls].initialize # Undefined
    /\ LET call == InitializeCall(classes, Top)
           r == Invoke(call.callee, Top.self, call.args, "initialize",
                       [stack EXCEPT ![Len(stack)].idx = @ + 1])
       IN  /\ CanInvoke(call.callee)
           /\ objs' = r.objs /\ stack' = r.stack /\ exc' = r.exc
           /\ ctorLog' = Logged(stack, call.callee, call.args)
    /\ ret' = 0
    /\ superCall' = NoSuperCall
    /\ UNCHANGED cvars

\* Class returns: every call it had to make is made.
CtorReturn ==
    /\ stack # <<>> /\ exc = "none"
    /\ Top.kind = "ctor"
    /\ \/ Top.idx > Len(classes[Top.cls].includes)
       \/ /\ Top.idx = Len(classes[Top.cls].includes)
          /\ classes[Top.cls].initialize = Undefined
    /\ stack' = Pop
    /\ ret' = 0
    /\ ctorLog' = IF Len(stack) = 1 /\ Top.via = "new"
                  THEN [ctorLog EXCEPT !.done = TRUE] ELSE ctorLog
    /\ superCall' = NoSuperCall
    /\ UNCHANGED <<objs, exc>>
    /\ UNCHANGED cvars

\* Class has no handler: an exception of a call it made passes through it.
CtorRaise ==
    /\ stack # <<>> /\ exc # "none"
    /\ Top.kind = "ctor"
    /\ stack' = Pop
    /\ superCall' = NoSuperCall
    /\ UNCHANGED <<objs, exc, ret, ctorLog>>
    /\ UNCHANGED cvars

\* Top-level code calls a method of an instance: o.m(a).
Call ==
    /\ stack = <<>>
    /\ \E i \in 1..Len(objs), n \in MethodNames, a \in Args :
          LET v == Member(classes, objs[i], n)
              r == Invoke(v, i, a, "call", stack)
          IN  /\ objs' = r.objs /\ stack' = r.stack /\ exc' = r.exc
    /\ ret' = 0
    /\ superCall' = NoSuperCall
    /\ UNCHANGED ctorLog
    /\ UNCHANGED cvars

\* The body of the running method calls this.super(a).
BodySuper ==
    /\ stack # <<>> /\ exc = "none"
    /\ Top.kind = "method"
    /\ \E a \in Args :
          LET v == objs[Top.self].super
              r == Invoke(v, Top.self, a, SUPER, stack)
          IN  /\ CanInvoke(v)
              /\ objs' = r.objs /\ stack' = r.stack /\ exc' = r.exc
              /\ superCall' = [active |-> TRUE, from |-> Top.w, self |-> Top.self,
                               args |-> a, target |-> v]
    /\ ret' = 0
    /\ UNCHANGED ctorLog
    /\ UNCHANGED cvars

\* The body of the running method calls a method of an instance.
BodyCall ==
    /\ stack # <<>> /\ exc = "none"
    /\ Top.kind = "method"
    /\ \E i \in 1..Len(objs), n \in MethodNames, a \in Args :
          LET v == Member(classes, objs[i], n)
              r == Invoke(v, i, a, "call", stack)
          IN  /\ CanInvoke(v)
              /\ objs' = r.objs /\ stack' = r.stack /\ exc' = r.exc
    /\ ret' = 0
    /\ superCall' = NoSuperCall
    /\ UNCHANGED ctorLog
    /\ UNCHANGED cvars

\* The body returns r: the finally block restores this.super and the
\* wrapper returns the same r (162).
BodyReturn ==
    /\ stack # <<>> /\ exc = "none"
    /\ Top.kind = "method"
    /\ \E r \in Results : ret' = r
    /\ objs' = [objs EXCEPT ![Top.self] = Restore(@, Top.tmp, FALSE)]
    /\ stack' = Pop
    /\ superCall' = NoSuperCall
    /\ UNCHANGED <<exc, ctorLog>>
    /\ UNCHANGED cvars

\* The body throws, or lets the exception of a call it made pass: the
\* finally block restores this.super on the way out.
BodyThrow ==
    /\ stack # <<>>
    /\ Top.kind = "method"
    /\ exc' = IF exc = "none" THEN "Error" ELSE exc
    /\ objs' = [objs EXCEPT ![Top.self] = Restore(@, Top.tmp, TRUE)]
    /\ stack' = Pop
    /\ superCall' = NoSuperCall
    /\ UNCHANGED <<ret, ctorLog>>
    /\ UNCHANGED cvars

\* The body catches the exception of a call it made and goes on.
BodyCatch ==
    /\ stack # <<>> /\ exc # "none"
    /\ Top.kind = "method"
    /\ exc' = "none"
    /\ superCall' = NoSuperCall
    /\ UNCHANGED <<objs, stack, ret, ctorLog>>
    /\ UNCHANGED cvars

\* Top-level code puts a function on the prototype of a class that
\* exists: C.prototype.m = f.
Inject ==
    /\ stack = <<>>
    /\ Cardinality(added) < MaxMutations
    /\ \E c \in 1..Len(classes) :
          /\ <<"prototype", c, "m">> \notin added
          /\ ~PutValue(classes, classes[c].proto, classes[c].base, "m", Fn(c, "late")).threw
          /\ classes' = [classes EXCEPT ![c].proto =
                PutValue(classes, @, classes[c].base, "m", Fn(c, "late")).own]
          /\ added' = added \cup {<<"prototype", c, "m">>}
    /\ superCall' = NoSuperCall
    /\ UNCHANGED <<outcome, lastDef, getters, objs, stack, exc, ret, ctorLog>>

(***************************************************************************)
(* The programs whose classes are run: each is the list of definitions it   *)
(* hands to create, in order.                                               *)
(***************************************************************************)
Def(extend, include, members) ==
    [extend |-> extend, include |-> include, members |-> members]

QuxBlock(self) == Static([NoProps EXCEPT !["qux"] = DataDesc(Fn(self, "qux"), TRUE)], NoProps)

\* Three levels, the middle one declaring nothing.
ThreeLevels ==
    << Def(0, <<>>, <<Method(1, INITIALIZE), Method(1, "m")>>),
       Def(1, <<>>, <<>>),
       Def(2, <<>>, <<Method(3, INITIALIZE), Method(3, "m")>>) >>

\* A mixin that has a base of its own, included by a class with another base.
MixinWithBase ==
    << Def(0, <<>>, <<Method(1, "m")>>),
       Def(1, <<>>, <<Method(2, INITIALIZE), Method(2, "m")>>),
       Def(0, <<>>, <<Method(3, INITIALIZE), Method(3, "m")>>),
       Def(3, <<2>>, <<>>) >>

\* The README's Foo, Bar (extends Foo) and Baz (includes Foo).
Readme ==
    << Def(0, <<>>, <<Method(1, INITIALIZE), Method(1, "m"), QuxBlock(1)>>),
       Def(1, <<>>, <<Method(2, INITIALIZE), Method(2, "m")>>),
       Def(0, <<1>>, <<>>) >>

\* A method whose base has no such method, and a class without `extend`
\* that declares an initializer and a method named toString.
NoBaseMethod ==
    << Def(0, <<>>, <<>>),
       Def(1, <<>>, <<Method(2, "m")>>),
       Def(0, <<>>, <<Method(3, INITIALIZE), Method(3, "toString")>>) >>

\* Two includes, each with an initializer.
TwoIncludes ==
    << Def(0, <<>>, <<Method(1, INITIALIZE), Method(1, "m")>>),
       Def(0, <<>>, <<Method(2, INITIALIZE), Method(2, "m")>>),
       Def(0, <<1, 2>>, <<Method(3, INITIALIZE)>>) >>

Programs == {ThreeLevels, MixinWithBase, Readme, NoBaseMethod, TwoIncludes}

\* The classes a program has once create has returned for each definition.
RECURSIVE Build(_, _)
Build(cs, defs) ==
    IF defs = <<>> THEN cs
    ELSE Build(Append(cs, create(cs, Head(defs)).class), Tail(defs))

InitRun ==
    /\ \E p \in Programs :
          /\ classes = Build(<<>>, p)
          /\ lastDef = p[Len(p)]
    /\ outcome = "ok"
    /\ getters = 0
    /\ added = {}
    /\ objs = <<>>
    /\ stack = <<>>
    /\ exc = "none"
    /\ ret = 0
    /\ superCall = NoSuperCall
    /\ ctorLog = [cls |-> 0, args |-> 0, calls |-> <<>>, done |-> FALSE]

NextRun ==
    \/ New \/ CtorInclude \/ CtorInitialize \/ CtorReturn \/ CtorRaise
    \/ Call \/ BodySuper \/ BodyCall \/ BodyReturn \/ BodyThrow \/ BodyCatch
    \/ Inject
SpecRun == InitRun /\ [][NextRun]_vars

(***************************************************************************)
(* Properties of create.                                                    *)
(***************************************************************************)

\* The definition declares `key` as a property of its own.
Declares(def, key) ==
    \E i \in 1..Len(def.members) : def.members[i].own /\ def.members[i].key = key

\* The member an instance of class c resolves for the name n.
Effective(c, n) == ChainLookup(classes, c, n)

\* The class c, or an instance of it, shows a member named n.
Shows(c, n) == Effective(c, n).kind # "absent" /\ Effective(c, n).enum

\* The positions of c's includes that show n.
Showing(c, n) == {j \in 1..Len(classes[c].def.include) : Shows(classes[c].def.include[j], n)}

Last(S) == CHOOSE j \in S : \A k \in S : k <= j

\* C1: the member an instance resolves for m is the own definition's when
\* the definition declares m, otherwise that of the last include that has
\* an m, otherwise the base's -- whatever kind of property the members of
\* lower precedence are.
PrecedenceHolds ==
    \A c \in 1..Len(classes) :
        LET def == classes[c].def
        IN  IF Declares(def, "m")
            THEN Effective(c, "m").kind # "absent" /\ Effective(c, "m").val.owner = c
            ELSE IF Showing(c, "m") # {}
            THEN Effective(c, "m") = Effective(def.include[Last(Showing(c, "m"))], "m")
            ELSE Effective(c, "m") = Effective(def.extend, "m")

\* The own enumerable member n of the definition's `static` block, Absent
\* when the block has none.
DeclaredStatic(def, n) ==
    IF \E i \in 1..Len(def.members) :
            /\ def.members[i].own /\ def.members[i].key = STATIC
            /\ def.members[i].block.own[n].kind # "absent"
            /\ def.members[i].block.own[n].enum
    THEN (CHOOSE e \in {def.members[i] : i \in 1..Len(def.members)} :
                e.own /\ e.key = STATIC).block.own[n]
    ELSE Absent

\* The classes c names by `extend` and `include`.
Named(c) ==
    {classes[c].def.include[j] : j \in 1..Len(classes[c].def.include)}
        \cup {classes[c].def.extend}

\* C2: the static members of a class are exactly the own enumerable members
\* of its own `static` block, unless top-level code put one on that very
\* class; none comes from its base or from an include, whether they had it
\* when the class was created or got it later.
StaticsAreOwn ==
    \A c \in 1..Len(classes) : \A n \in Names :
        <<STATIC, c, n>> \notin added =>
            /\ classes[c].statics[n] = DeclaredStatic(classes[c].def, n)
            /\ \A b \in Named(c) \ {0} :
                    classes[b].statics[n].kind # "absent"
                        /\ DeclaredStatic(classes[c].def, n) = Absent
                    => classes[c].statics[n] = Absent

\* C2's case: a class names, by `extend` and in `include`, a class that has
\* the static member qux, and has none itself.
StaticsAreOwnWitness ==
    \E c \in 1..Len(classes) :
        /\ classes[c].def.extend # 0
        /\ classes[c].def.include # <<>>
        /\ \A b \in Named(c) : classes[b].statics["qux"].kind # "absent"
        /\ classes[c].statics["qux"] = Absent

\* C5: a call of create with a definition that has an own key `super`
\* raises the reserved-name error and leaves every class as it was.
ReservedNameRaised ==
    [][Declares(lastDef', SUPER) =>
            outcome' = "ReservedNameError" /\ classes' = classes]_vars

\* C10: create invokes no getter, and an accessor that the definition
\* declares, or that the last include showing that name has, is on the new
\* prototype with the same getter and setter.
AccessorsKept ==
    /\ getters = 0
    /\ \A c \in 1..Len(classes) :
          LET def == classes[c].def
          IN  /\ \A i \in 1..Len(def.members) :
                    def.members[i].own /\ def.members[i].key = "m"
                        /\ def.members[i].desc.kind = "accessor"
                    => classes[c].proto["m"] = def.members[i].desc
              /\ ~Declares(def, "m") /\ Showing(c, "m") # {}
                    /\ Effective(def.include[Last(Showing(c, "m"))], "m").kind = "accessor"
                 => classes[c].proto["m"] =
                        Effective(def.include[Last(Showing(c, "m"))], "m")

(***************************************************************************)
(* Properties of the classes when they run (checked of SpecRun).            *)
(***************************************************************************)

\* The class named by `extend` in the definition that declared the method
\* a wrapper runs.
DeclaredBase(w) == classes[w.owner].def.extend

\* What `this.super` should be, resolved against class b, for the
\* signature sig.
Resolved(b, sig) ==
    IF Truthy(GetValue(ChainLookup(classes, b, sig)))
    THEN GetValue(ChainLookup(classes, b, sig))
    ELSE noSuper

\* The top frame runs the value v on the instance self with the arguments a.
Runs(v, self, a) ==
    /\ stack # <<>>
    /\ Top.self = self /\ Top.args = a /\ Top.via = SUPER
    /\ IF v.t = "class"
       THEN Top.kind = "ctor" /\ Top.cls = v.owner /\ Top.idx = 0
       ELSE Top.kind = "method" /\ Top.w = v

\* C3: when a method of a class declared with extend = Base has just
\* called this.super(a), and Base's prototype chain has a method of that
\* name (for initialize: always, Base's constructor), that method is what
\* was called, and it is now running on the caller's instance with a.
SuperRunsBaseMethod ==
    superCall.active =>
        LET w == superCall.from
            B == DeclaredBase(w)
            expected == IF w.sig = CONSTRUCTOR THEN ClassVal(B)
                        ELSE GetValue(ChainLookup(classes, B, w.sig))
        IN  B # 0 /\ expected.t \in {"wrapped", "class", "fn"} =>
                /\ exc = "none"
                /\ superCall.target = expected
                /\ expected.t # "fn" => Runs(expected, superCall.self, superCall.args)

\* C3's case: a method m of the third level called this.super(1) and the
\* first level's m runs, the level between declaring no m.
SuperRunsBaseMethodWitness ==
    /\ superCall.active
    /\ superCall.from.sig = "m"
    /\ superCall.args = 1
    /\ DeclaredBase(superCall.from) # 0
    /\ ~Declares(classes[DeclaredBase(superCall.from)].def, "m")
    /\ Top.kind = "method"
    /\ Top.w.owner = classes[DeclaredBase(superCall.from)].def.extend
    /\ Top.w.owner # 0

\* C4: a call of this.super raises the no-superclass-method error whenever
\* the caller's class was declared without `extend`, and with `extend`
\* exactly when the base's prototype chain has no member of that name.
NoBaseRaises ==
    superCall.active =>
        LET w == superCall.from
            B == DeclaredBase(w)
        IN  IF B = 0
            THEN exc = "NoSuperclassMethodError"
            ELSE exc = "NoSuperclassMethodError"
                    <=> ChainLookup(classes, B, w.sig).kind = "absent"

\* The instance's class has the running method from one of its includes.
FromInclude(i, w) ==
    LET C == objs[i].cls
    IN  /\ w.owner # C
        /\ w.sig # CONSTRUCTOR
        /\ classes[C].proto[w.sig].val = w
        /\ \E j \in 1..Len(classes[C].def.include) :
                GetValue(Effective(classes[C].def.include[j], w.sig)) = w

\* C6 as stated: in a method that the instance's class has from an
\* include, this.super is the same-named method of that class's own base.
IncludedSuperUsesIncluderBase ==
    superCall.active /\ FromInclude(superCall.self, superCall.from) =>
        superCall.target =
            Resolved(classes[objs[superCall.self].cls].def.extend, superCall.from.sig)

\* C6 amended: in a method that the instance's class has from an include,
\* this.super is the same-named method of the base of the class whose
\* definition declared the method.
IncludedSuperUsesDeclarerBase ==
    superCall.active /\ FromInclude(superCall.self, superCall.from) =>
        superCall.target = Resolved(DeclaredBase(superCall.from), superCall.from.sig)

\* C6's case: the including class and the class that declared the method
\* have bases with different methods of that name.
IncludedSuperWitness ==
    /\ superCall.active
    /\ FromInclude(superCall.self, superCall.from)
    /\ classes[objs[superCall.self].cls].def.extend # 0
    /\ DeclaredBase(superCall.from) # 0
    /\ Resolved(classes[objs[superCall.self].cls].def.extend, superCall.from.sig)
            # Resolved(DeclaredBase(superCall.from), superCall.from.sig)

\* The frames of wrapped methods that run on instance i.
MethodFrames(i) == {k \in 1..Len(stack) : stack[k].kind = "method" /\ stack[k].self = i}

\* C7: at every moment the `super` of an instance is what the innermost
\* wrapped call still running on it bound, and undefined -- what it was
\* before the outermost call -- when none is running, whether the calls
\* that ended returned or threw.
HandleRestored ==
    \A i \in 1..Len(objs) :
        objs[i].super =
            IF MethodFrames(i) = {} THEN Undefined
            ELSE LET w == stack[Last(MethodFrames(i))].w
                 IN  Resolved(w.base, w.sig)

\* C7's case: a wrapped call made by a wrapped method has thrown, and the
\* outer method is running again with a handle of its own.
HandleRestoredWitness ==
    /\ exc = "Error"
    /\ stack # <<>>
    /\ Top.kind = "method"
    /\ objs[Top.self].super.t = "wrapped"

\* q is p or the beginning of p.
IsPrefix(q, p) == Len(q) <= Len(p) /\ q = SubSeq(p, 1, Len(q))

\* What `new C(a)` is to call: the includes in order with no argument,
\* then with a the own initializer, or else the base's constructor.
ExpectedCalls(c, a) ==
    LET def == classes[c].def
    IN  [j \in 1..Len(def.include) |-> [callee |-> ClassVal(def.include[j]), args |-> 0]]
        \o (IF Declares(def, INITIALIZE)
            THEN <<[callee |-> Value("wrapped", c, CONSTRUCTOR, def.extend), args |-> a]>>
            ELSE IF def.extend # 0
            THEN <<[callee |-> ClassVal(def.extend), args |-> a]>>
            ELSE <<>>)

\* C8: the calls a construction has made are the beginning of that list,
\* and the whole list once the constructor has returned.
ConstructionOrder ==
    ctorLog.cls # 0 =>
        /\ IsPrefix(ctorLog.calls, ExpectedCalls(ctorLog.cls, ctorLog.args))
        /\ ctorLog.done => ctorLog.calls = ExpectedCalls(ctorLog.cls, ctorLog.args)

\* C8's case: new C(1) has returned, C having two includes and an
\* initializer of its own.
ConstructionOrderWitness ==
    /\ ctorLog.done
    /\ ctorLog.args = 1
    /\ Len(ctorLog.calls) = 3

\* C9: this.super is resolved when the method is called: the call raises
\* the no-superclass-method error while the base's chain has no such
\* member, and reaches a function put on the base's prototype after the
\* class was created.
LateBinding ==
    superCall.active =>
        LET w == superCall.from
            d == ChainLookup(classes, DeclaredBase(w), w.sig)
        IN  /\ d.kind = "absent" =>
                superCall.target = noSuper /\ exc = "NoSuperclassMethodError"
            /\ d.val.t = "fn" /\ d.val.sig = "late" =>
                superCall.target = d.val /\ exc = "none"

\* C9's case: the function put on the base's prototype later was reached
\* from a method whose base had no such member at creation.
LateBindingWitness ==
    /\ superCall.active
    /\ superCall.target.sig = "late"
    /\ <<"prototype", DeclaredBase(superCall.from), "m">> \in added
    /\ ~Declares(classes[DeclaredBase(superCall.from)].def, "m")

====
